---- MODULE Spec2Model ----
(***************************************************************************)
(* Model of the POST /deploy handler of the staticdeploy web server        *)
(* (web-server/src/api/deploy/post.ts).  The handler looks up a bundle, an *)
(* app and an entrypoint, creates the app and the entrypoint when they are *)
(* missing, and points the entrypoint at the bundle, logging an operation  *)
(* after every mutation.  Every await of the handler is one step of a      *)
(* request, so that requests interleave at the awaits as they do on the    *)
(* node event loop.  The storage module and the operation log are the      *)
(* handler's collaborators; they are modelled by what the handler and the  *)
(* specification say of them.                                              *)
(***************************************************************************)
EXTENDS Integers, Sequences, FiniteSets, TLC

(* ------------------------------ bounds -------------------------------- *)

\* Number of requests the model starts in one behaviour.
MaxDeploys == 2

\* The handler invocations that can be in flight at the same time.
Reqs == {1, 2}

(* --------------------------- value domains ---------------------------- *)

\* JavaScript null, as a record so that it compares with the stored records.
null == [id |-> "null"]

\* The ids the storage hands out, in creation order.
AppIds == <<"A1", "A2", "A3", "A4", "A5">>
EntrypointIds == <<"E1", "E2", "E3", "E4", "E5">>

\* The bundles that were uploaded, in creation order (oldest first).  Two
\* bundles share the name:tag combination site:v1.
Bundles ==
    << [id |-> "B1", name |-> "site", tag |-> "v1"],
       [id |-> "B2", name |-> "site", tag |-> "v1"],
       [id |-> "B3", name |-> "site", tag |-> "v2"] >>

\* Request bodies: name:tag combinations (the last one matches no bundle),
\* app names, and url matchers (the last one is the id of an entrypoint, not
\* a well-formed matcher).
BundleNameTagCombinations == {<<"site", "v1">>, <<"site", "v2">>, <<"site", "v0">>}
AppNames == {"acme", "blog"}
EntrypointUrlMatchers == {"acme.com/", "E1"}

\* The app names are interchangeable: the first request names this one.
FirstAppName == "acme"

\* The defaultConfiguration {} of a created app.
EmptyConfiguration == <<>>

(* ------------------------------- state -------------------------------- *)

VARIABLES
    apps,           \* storage: the app records, in creation order
    entrypoints,    \* storage: the entrypoint records, in creation order
    auditLog,       \* the operations logged with req.logOperation, in order
    handler,        \* per request: its position, its body and its locals
    trace,          \* per request: the storage mutations and log calls it made
    run,            \* per request: whether it ran alone, what it repeats, and
                    \* whether the handler validated the urlMatcher (line 92)
    started         \* number of requests started so far

vars == <<apps, entrypoints, auditLog, handler, trace, run, started>>

Range(s) == {s[i] : i \in 1..Len(s)}

Min(S) == CHOOSE x \in S : \A y \in S : x <= y

Max(S) == CHOOSE x \in S : \A y \in S : y <= x

(* ----------------------- storage and validation ----------------------- *)

\* storage.bundles.findLatestByNameTagCombination: the bundle created last
\* among those of the name:tag combination
findLatestByNameTagCombination(ref) ==
    LET hits == {i \in 1..Len(Bundles) : <<Bundles[i].name, Bundles[i].tag>> = ref}
    IN  IF hits = {} THEN null ELSE Bundles[Max(hits)]

\* storage.apps.findOneByIdOrName: the first stored app with this id or name
findOneByIdOrName(ref) ==
    LET hits == {i \in 1..Len(apps) : apps[i].id = ref \/ apps[i].name = ref}
    IN  IF hits = {} THEN null ELSE apps[Min(hits)]

\* storage.entrypoints.findOneByIdOrUrlMatcher: the first stored entrypoint
\* with this id or urlMatcher
findOneByIdOrUrlMatcher(ref) ==
    LET hits == {i \in 1..Len(entrypoints) :
                    entrypoints[i].id = ref \/ entrypoints[i].urlMatcher = ref}
    IN  IF hits = {} THEN null ELSE entrypoints[Min(hits)]

\* validateEntrypointUrlMatcher: TRUE when it returns, FALSE when it throws
validateEntrypointUrlMatcher(urlMatcher) ==
    urlMatcher \in {"acme.com/", "blog.com/"}

\* The record storage.apps.create inserts and returns
createdApp(partial) ==
    [id |-> AppIds[Len(apps) + 1],
     name |-> partial.name,
     defaultConfiguration |-> partial.defaultConfiguration]

\* The record storage.entrypoints.create inserts and returns
createdEntrypoint(partial) ==
    [id |-> EntrypointIds[Len(entrypoints) + 1],
     appId |-> partial.appId,
     urlMatcher |-> partial.urlMatcher,
     configuration |-> partial.configuration,
     bundleId |-> "null"]

\* The entrypoints after storage.entrypoints.update(id, patch): the fields
\* of the patch replace those of the record with this id
updatedEntrypoints(id, patch) ==
    [i \in 1..Len(entrypoints) |->
        IF entrypoints[i].id = id
        THEN [f \in DOMAIN entrypoints[i] |->
                IF f \in DOMAIN patch THEN patch[f] ELSE entrypoints[i][f]]
        ELSE entrypoints[i]]

(* ----------------------------- the handler ---------------------------- *)

Lookups == {"bundle", "app", "entrypoint"}

IdleHandler ==
    [pc |-> "idle", body |-> null, pending |-> {},
     bundle |-> null, existingApp |-> null, existingEntrypoint |-> null,
     app |-> null, entrypoint |-> null, newEntrypoint |-> null,
     outcome |-> "none"]

InFlight(r) == handler[r].pc \notin {"idle", "done"}

\* No request precedes this one with the same body.
NoPred == [outcome |-> "none", trace |-> <<>>]

\* Finish without the return of line 82: after the 409 response the
\* handler runs on.
Finish_noReturn(r, o) ==
    handler' = [handler EXCEPT
                    ![r].pc = IF o = "409" THEN "logUpdateEntrypoint" ELSE "done",
                    ![r].outcome = o]

\* The request r ends with outcome o: nothing of it runs afterwards.
Finish(r, o) ==
    handler' = [handler EXCEPT ![r].pc = "done", ![r].outcome = o]

\* A request arrives with a schema-validated body (line 49); the handler
\* issues its three lookups.  Requests are anonymous: a new one takes the
\* lowest position that is free, and the frames of the finished requests are
\* discarded.  run[r].pred remembers the request that ran
\* just before this one, alone and with the same body, if there is one.
Start(r, body) ==
    /\ ~InFlight(r)
    /\ \A q \in Reqs : q < r => InFlight(q)
    /\ started = 0 => body.appName = FirstAppName
    /\ started < MaxDeploys
    /\ started' = started + 1
    /\ handler' = [q \in Reqs |->
            IF q = r
            THEN [IdleHandler EXCEPT !.pc = "lookup", !.body = body,
                                     !.pending = Lookups]
            ELSE IF InFlight(q) THEN handler[q] ELSE IdleHandler]
    /\ trace' = [q \in Reqs |-> IF q # r /\ InFlight(q) THEN trace[q] ELSE <<>>]
    /\ LET quiet == \A q \in Reqs : ~InFlight(q)
       IN  run' = [q \in Reqs |->
                    IF q = r
                    THEN [alone |-> quiet,
                          validated |-> FALSE,
                          pred |-> IF /\ quiet
                                      /\ handler[r].pc = "done"
                                      /\ handler[r].body = body
                                      /\ run[r].alone
                                   THEN [outcome |-> handler[r].outcome,
                                         trace |-> trace[r]]
                                   ELSE NoPred]
                    ELSE IF InFlight(q)
                    THEN [run[q] EXCEPT !.alone = FALSE]
                    ELSE [alone |-> FALSE, validated |-> FALSE, pred |-> NoPred]]
    /\ UNCHANGED <<apps, entrypoints, auditLog>>

\* One of the three lookups of Promise.all completes (lines 51-59).
FindBundle(r) ==
    /\ handler[r].pc = "lookup"
    /\ "bundle" \in handler[r].pending
    /\ handler' = [handler EXCEPT
            ![r].pending = @ \ {"bundle"},
            ![r].bundle =
                findLatestByNameTagCombination(handler[r].body.bundleNameTagCombination)]
    /\ UNCHANGED <<apps, entrypoints, auditLog, trace, run, started>>

FindApp(r) ==
    /\ handler[r].pc = "lookup"
    /\ "app" \in handler[r].pending
    /\ handler' = [handler EXCEPT
            ![r].pending = @ \ {"app"},
            ![r].existingApp = findOneByIdOrName(handler[r].body.appName)]
    /\ UNCHANGED <<apps, entrypoints, auditLog, trace, run, started>>

FindEntrypoint(r) ==
    /\ handler[r].pc = "lookup"
    /\ "entrypoint" \in handler[r].pending
    /\ handler' = [handler EXCEPT
            ![r].pending = @ \ {"entrypoint"},
            ![r].existingEntrypoint =
                findOneByIdOrUrlMatcher(handler[r].body.entrypointUrlMatcher)]
    /\ UNCHANGED <<apps, entrypoints, auditLog, trace, run, started>>

\* if (!bundle) with every check skipped.
BundleMissing_never(r) == FALSE

\* if (!bundle), line 62
BundleMissing(r) == handler[r].bundle = null

\* Lines 75-78 without the !existingApp disjunct.
EntrypointAppMismatch_appRequired(r) ==
    /\ handler[r].existingEntrypoint # null
    /\ handler[r].existingApp # null
    /\ handler[r].existingApp.id # handler[r].existingEntrypoint.appId

\* The condition of lines 75-78
EntrypointAppMismatch(r) ==
    /\ handler[r].existingEntrypoint # null
    /\ \/ handler[r].existingApp = null
       \/ handler[r].existingApp.id # handler[r].existingEntrypoint.appId

\* if (!app), lines 86-87, creating an app on every request.
AppMissing_always(r) == TRUE

\* if (!app), lines 86-87
AppMissing(r) == handler[r].existingApp = null

\* Line 92 with the validation left out.
MatcherValidated_skipped(r) == TRUE

\* Line 92 with a validation that only rejects the empty string.
MatcherValidated_nonEmpty(r) == handler[r].body.entrypointUrlMatcher # ""

\* validateEntrypointUrlMatcher(req.body.entrypointUrlMatcher), line 92:
\* TRUE when it returns, FALSE when it throws
MatcherValidated(r) ==
    validateEntrypointUrlMatcher(handler[r].body.entrypointUrlMatcher)

\* Lines 103-104 creating an entrypoint on every request.
AfterApp_alwaysCreate(r) == "createEntrypoint"

\* What the handler does next once it holds an app (lines 102-104, 116).
AfterApp(r) ==
    IF handler[r].existingEntrypoint = null
    THEN "createEntrypoint"
    ELSE "updateEntrypoint"

\* Promise.all with the handler going on as soon as the bundle is there.
LookupsJoined_bundleOnly(r) == "bundle" \notin handler[r].pending

\* await Promise.all([...]), lines 51-59: the three lookups have completed
LookupsJoined(r) == handler[r].pending = {}

\* Lines 61-104 with the validation of line 92 hoisted before the linkage
\* check of lines 75-83.
Decide_validateFirst(r) ==
    /\ handler[r].pc = "lookup"
    /\ LookupsJoined(r)
    /\ UNCHANGED <<apps, entrypoints, auditLog, trace, started>>
    /\ IF BundleMissing(r)
       THEN Finish(r, "NotFound") /\ UNCHANGED run
       ELSE IF AppMissing(r) /\ ~MatcherValidated(r)
       THEN /\ run' = [run EXCEPT ![r].validated = TRUE]
            /\ Finish(r, "Validation")
       ELSE IF EntrypointAppMismatch(r)
       THEN /\ run' = [run EXCEPT ![r].validated = AppMissing(r)]
            /\ Finish(r, "409")
       ELSE IF AppMissing(r)
       THEN /\ run' = [run EXCEPT ![r].validated = TRUE]
            /\ handler' = [handler EXCEPT ![r].pc = "createApp"]
       ELSE /\ handler' = [handler EXCEPT
                    ![r].app = handler[r].existingApp,
                    ![r].entrypoint = handler[r].existingEntrypoint,
                    ![r].pc = AfterApp(r)]
            /\ UNCHANGED run

\* The synchronous part after the join (lines 61-92 and 102-104): the bundle
\* check, the linkage check, and the validation before the app is created.
Decide(r) ==
    /\ handler[r].pc = "lookup"
    /\ LookupsJoined(r)
    /\ UNCHANGED <<apps, entrypoints, auditLog, trace, started>>
    /\ IF BundleMissing(r)
       THEN Finish(r, "NotFound") /\ UNCHANGED run
       ELSE IF EntrypointAppMismatch(r)
       THEN Finish(r, "409") /\ UNCHANGED run
       ELSE IF AppMissing(r)
       THEN /\ run' = [run EXCEPT ![r].validated = TRUE]
            /\ IF MatcherValidated(r)
               THEN handler' = [handler EXCEPT ![r].pc = "createApp"]
               ELSE Finish(r, "Validation")
       ELSE /\ handler' = [handler EXCEPT
                    ![r].app = handler[r].existingApp,
                    ![r].entrypoint = handler[r].existingEntrypoint,
                    ![r].pc = AfterApp(r)]
            /\ UNCHANGED run

\* await storage.apps.create(...), lines 94-97
CreateApp(r) ==
    /\ handler[r].pc = "createApp"
    /\ LET a == createdApp([name |-> handler[r].body.appName,
                            defaultConfiguration |-> EmptyConfiguration])
       IN  /\ apps' = Append(apps, a)
           /\ handler' = [handler EXCEPT ![r].app = a, ![r].pc = "logCreateApp"]
    /\ trace' = [trace EXCEPT ![r] = Append(@, "apps.create")]
    /\ UNCHANGED <<entrypoints, auditLog, run, started>>

\* Line 99 left out: the handler goes on without logging the created app.
LogCreateApp_omitted(r) ==
    /\ handler[r].pc = "logCreateApp"
    /\ handler' = [handler EXCEPT
            ![r].entrypoint = handler[r].existingEntrypoint,
            ![r].pc = IF handler[r].existingEntrypoint = null
                      THEN "createEntrypoint" ELSE "updateEntrypoint"]
    /\ UNCHANGED <<apps, entrypoints, auditLog, trace, run, started>>

\* await req.logOperation(Operation.createApp, ...), line 99, then 102-104
LogCreateApp(r) ==
    /\ handler[r].pc = "logCreateApp"
    /\ auditLog' = Append(auditLog,
            [operation |-> "createApp", createdApp |-> handler[r].app])
    /\ trace' = [trace EXCEPT ![r] = Append(@, "createApp")]
    /\ handler' = [handler EXCEPT
            ![r].entrypoint = handler[r].existingEntrypoint,
            ![r].pc = AfterApp(r)]
    /\ UNCHANGED <<apps, entrypoints, run, started>>

\* Lines 105-109 taking the owner from existingApp instead of app.
EntrypointPartial_existingApp(r) ==
    [appId |-> handler[r].existingApp.id,
     urlMatcher |-> handler[r].body.entrypointUrlMatcher,
     configuration |-> "null"]

\* The argument of storage.entrypoints.create, lines 105-109
EntrypointPartial(r) ==
    [appId |-> handler[r].app.id,
     urlMatcher |-> handler[r].body.entrypointUrlMatcher,
     configuration |-> "null"]

\* await storage.entrypoints.create(...), lines 105-109.  The creation
\* validates the urlMatcher and throws when it is malformed (lines 88-91).
CreateEntrypoint(r) ==
    /\ handler[r].pc = "createEntrypoint"
    /\ UNCHANGED <<apps, auditLog, run, started>>
    /\ IF validateEntrypointUrlMatcher(handler[r].body.entrypointUrlMatcher)
       THEN LET e == createdEntrypoint(EntrypointPartial(r))
            IN  /\ entrypoints' = Append(entrypoints, e)
                /\ handler' = [handler EXCEPT ![r].entrypoint = e,
                                              ![r].pc = "logCreateEntrypoint"]
                /\ trace' = [trace EXCEPT ![r] = Append(@, "entrypoints.create")]
           ELSE /\ UNCHANGED <<entrypoints, trace>>
            /\ Finish(r, "Validation")

\* await req.logOperation(Operation.createEntrypoint, ...), lines 111-113
LogCreateEntrypoint(r) ==
    /\ handler[r].pc = "logCreateEntrypoint"
    /\ auditLog' = Append(auditLog,
            [operation |-> "createEntrypoint",
             createdEntrypoint |-> handler[r].entrypoint])
    /\ trace' = [trace EXCEPT ![r] = Append(@, "createEntrypoint")]
    /\ handler' = [handler EXCEPT ![r].pc = "updateEntrypoint"]
    /\ UNCHANGED <<apps, entrypoints, run, started>>

\* Line 118 writing back the bundle the entrypoint already had.
BundlePatch_stale(r) == [bundleId |-> handler[r].entrypoint.bundleId]

\* Line 118 with a patch that also writes the urlMatcher of the request.
BundlePatch_withUrlMatcher(r) ==
    [bundleId |-> handler[r].bundle.id,
     urlMatcher |-> handler[r].body.entrypointUrlMatcher]

\* The patch of line 118
BundlePatch(r) == [bundleId |-> handler[r].bundle.id]

\* await storage.entrypoints.update(entrypoint.id, ...), lines 117-119
UpdateEntrypoint(r) ==
    /\ handler[r].pc = "updateEntrypoint"
    /\ entrypoints' = updatedEntrypoints(handler[r].entrypoint.id, BundlePatch(r))
    /\ LET i == CHOOSE j \in 1..Len(entrypoints) :
                    entrypoints[j].id = handler[r].entrypoint.id
       IN  handler' = [handler EXCEPT ![r].newEntrypoint = entrypoints'[i],
                                      ![r].pc = "logUpdateEntrypoint"]
    /\ trace' = [trace EXCEPT ![r] = Append(@, "entrypoints.update")]
    /\ UNCHANGED <<apps, auditLog, run, started>>

\* await req.logOperation(Operation.updateEntrypoint, ...) and
\* res.status(204).send(), lines 121-126
LogUpdateEntrypoint(r) ==
    /\ handler[r].pc = "logUpdateEntrypoint"
    /\ auditLog' = Append(auditLog,
            [operation |-> "updateEntrypoint",
             oldEntrypoint |-> handler[r].entrypoint,
             newEntrypoint |-> handler[r].newEntrypoint])
    /\ trace' = [trace EXCEPT ![r] = Append(@, "updateEntrypoint")]
    /\ Finish(r, "204")
    /\ UNCHANGED <<apps, entrypoints, run, started>>

\* The positions at which the handler awaits a storage or log call.
Awaiting(r) ==
    \/ handler[r].pc = "lookup" /\ handler[r].pending # {}
    \/ handler[r].pc \in {"createApp", "logCreateApp", "createEntrypoint",
                          "logCreateEntrypoint", "updateEntrypoint",
                          "logUpdateEntrypoint"}

\* The awaited call raises a fault: it has no effect, and the error
\* propagates out of the handler, whose locals are lost.
Fault(r) ==
    /\ Awaiting(r)
    /\ UNCHANGED <<apps, entrypoints, auditLog, trace, run, started>>
    /\ handler' = [handler EXCEPT ![r] =
            [IdleHandler EXCEPT !.pc = "done", !.body = handler[r].body,
                                !.outcome = "Fault"]]

Bodies ==
    [bundleNameTagCombination : BundleNameTagCombinations,
     appName : AppNames,
     entrypointUrlMatcher : EntrypointUrlMatchers]

Init ==
    /\ apps = <<>>
    /\ entrypoints = <<>>
    /\ auditLog = <<>>
    /\ handler = [r \in Reqs |-> IdleHandler]
    /\ trace = [r \in Reqs |-> <<>>]
    /\ run = [r \in Reqs |->
                [alone |-> FALSE, validated |-> FALSE, pred |-> NoPred]]
    /\ started = 0

Next ==
    \E r \in Reqs :
        \/ \E body \in Bodies : Start(r, body)
        \/ FindBundle(r)
        \/ FindApp(r)
        \/ FindEntrypoint(r)
        \/ Decide(r)
        \/ CreateApp(r)
        \/ LogCreateApp(r)
        \/ CreateEntrypoint(r)
        \/ LogCreateEntrypoint(r)
        \/ UpdateEntrypoint(r)
        \/ LogUpdateEntrypoint(r)
        \/ Fault(r)

Spec == Init /\ [][Next]_vars

\* A step of the handler of the request r: an awaited call returns, with a
\* value or with a fault, and the handler runs up to its next await.
Step(r) ==
    \/ FindBundle(r)
    \/ FindApp(r)
    \/ FindEntrypoint(r)
    \/ Decide(r)
    \/ CreateApp(r)
    \/ LogCreateApp(r)
    \/ CreateEntrypoint(r)
    \/ LogCreateEntrypoint(r)
    \/ UpdateEntrypoint(r)
    \/ LogUpdateEntrypoint(r)
    \/ Fault(r)

\* The executions in which every call a handler awaits returns.
FairSpec == Spec /\ \A r \in Reqs : WF_vars(Step(r))

(* ------------------------------ properties ---------------------------- *)

Done(r) == handler[r].pc = "done"

\* The request r got past its lookups with these three results in hand.
Joined(r) ==
    /\ handler[r].pc # "idle"
    /\ handler[r].pending = {}
    /\ handler[r].outcome # "Fault"

Mutations == {"apps.create", "entrypoints.create", "entrypoints.update"}

\* The operation the handler logs after a mutation.
OperationOf(m) ==
    CASE m = "apps.create" -> "createApp"
      [] m = "entrypoints.create" -> "createEntrypoint"
      [] m = "entrypoints.update" -> "updateEntrypoint"

\* In t every mutation stands at an odd position and every log call directly
\* follows the mutation it records.
WellPaired(t) ==
    \A i \in 1..Len(t) :
        IF i % 2 = 1
        THEN t[i] \in Mutations
        ELSE t[i - 1] \in Mutations /\ t[i] = OperationOf(t[i - 1])

FullDeploy ==
    << "apps.create", "createApp", "entrypoints.create", "createEntrypoint",
       "entrypoints.update", "updateEntrypoint" >>

\* C1: a request whose bundle lookup returned no bundle ends with the
\* NotFound error and makes no storage mutation and no log call, whatever its
\* app and entrypoint lookups returned: it never leaves the lookup position
\* except to end.
C1_BundleAbsentIsNotFound ==
    \A r \in Reqs :
        (/\ handler[r].pc # "idle"
         /\ handler[r].outcome # "Fault"
         /\ "bundle" \notin handler[r].pending
         /\ handler[r].bundle = null)
        => /\ trace[r] = <<>>
           /\ handler[r].pc \in {"lookup", "done"}
           /\ Done(r) => handler[r].outcome = "NotFound"

C1_Witness ==
    \E r \in Reqs :
        /\ Done(r)
        /\ handler[r].outcome = "NotFound"
        /\ handler[r].existingApp # null
        /\ handler[r].existingEntrypoint # null

C3_Idempotent ==
    \A r \in Reqs :
        (/\ Done(r)
         /\ run[r].alone
         /\ run[r].pred.outcome = "204"
         /\ handler[r].outcome # "Fault")
        => /\ handler[r].outcome = "204"
           /\ trace[r] = <<"entrypoints.update", "updateEntrypoint">>
           /\ handler[r].newEntrypoint = handler[r].existingEntrypoint
           /\ handler[r].newEntrypoint.bundleId = handler[r].bundle.id
           /\ handler[r].newEntrypoint \in Range(entrypoints)

C3_Witness ==
    \E r \in Reqs :
        /\ Done(r)
        /\ run[r].alone
        /\ run[r].pred.outcome = "204"
        /\ run[r].pred.trace = FullDeploy
        /\ handler[r].outcome = "204"

\* C4 as stated: when the bundle exists, the app does not exist and the
\* urlMatcher is malformed, the request ends with the Validation error and
\* has created no app.
C4_Original ==
    \A r \in Reqs :
        (/\ Done(r)
         /\ Joined(r)
         /\ handler[r].bundle # null
         /\ handler[r].existingApp = null
         /\ ~validateEntrypointUrlMatcher(handler[r].body.entrypointUrlMatcher))
        => /\ handler[r].outcome = "Validation"
           /\ "apps.create" \notin Range(trace[r])

\* C4 amended: when the bundle exists, the app lookup and the entrypoint
\* lookup both return nothing and the urlMatcher is malformed, the request
\* ends with the Validation error without any mutation; and no request, in
\* any execution, reaches the app creation with a malformed urlMatcher.
C4_ValidationBeforeCreate ==
    \A r \in Reqs :
        /\ (/\ Joined(r)
            /\ handler[r].bundle # null
            /\ handler[r].existingApp = null
            /\ handler[r].existingEntrypoint = null
            /\ ~validateEntrypointUrlMatcher(handler[r].body.entrypointUrlMatcher))
           => /\ trace[r] = <<>>
              /\ handler[r].pc \in {"lookup", "done"}
              /\ Done(r) => handler[r].outcome = "Validation"
        /\ (handler[r].pc = "createApp" \/ "apps.create" \in Range(trace[r]))
           => validateEntrypointUrlMatcher(handler[r].body.entrypointUrlMatcher)

C4_Witness ==
    \E r \in Reqs :
        /\ Done(r)
        /\ handler[r].outcome = "Validation"
        /\ handler[r].bundle # null
        /\ handler[r].existingApp = null
        /\ handler[r].existingEntrypoint = null
        /\ trace[r] = <<>>

\* C5: a request that runs alone with an existing bundle, no app, no
\* entrypoint and a well-formed urlMatcher, and that no fault ends, makes
\* exactly the mutations create app, create entrypoint, update entrypoint in
\* this order (each followed by its log call) and succeeds: the app has the
\* given name and an empty defaultConfiguration, the entrypoint is created
\* with the app's id, the given urlMatcher, null configuration and null
\* bundleId, and the update sets its bundleId to the bundle's id.
C5_FullDeploy ==
    \A r \in Reqs :
        (/\ Done(r)
         /\ Joined(r)
         /\ run[r].alone
         /\ handler[r].bundle # null
         /\ handler[r].existingApp = null
         /\ handler[r].existingEntrypoint = null
         /\ validateEntrypointUrlMatcher(handler[r].body.entrypointUrlMatcher))
        => /\ handler[r].outcome = "204"
           /\ trace[r] = FullDeploy
           /\ handler[r].app.name = handler[r].body.appName
           /\ handler[r].app.defaultConfiguration = EmptyConfiguration
           /\ handler[r].app \in Range(apps)
           /\ handler[r].entrypoint.appId = handler[r].app.id
           /\ handler[r].entrypoint.urlMatcher = handler[r].body.entrypointUrlMatcher
           /\ handler[r].entrypoint.configuration = "null"
           /\ handler[r].entrypoint.bundleId = "null"
           /\ handler[r].newEntrypoint =
                [handler[r].entrypoint EXCEPT !.bundleId = handler[r].bundle.id]
           /\ handler[r].newEntrypoint \in Range(entrypoints)

C5_Witness ==
    \E r \in Reqs :
        /\ Done(r)
        /\ run[r].alone
        /\ handler[r].existingApp = null
        /\ handler[r].existingEntrypoint = null
        /\ handler[r].outcome = "204"
        /\ Len(apps) = 1
        /\ Len(entrypoints) = 1
        /\ Len(auditLog) = 3

\* C6 as stated: in every finished request, also one a fault ended, every
\* mutation made is followed by its log call before the next mutation, and
\* there is no log call without its mutation.
C6_Original ==
    \A r \in Reqs :
        Done(r) => WellPaired(trace[r]) /\ Len(trace[r]) % 2 = 0

\* C6 amended: the log calls of a request follow its mutations one to one
\* (every log call records the mutation made just before it, no mutation is
\* made before the previous one is logged), except that a mutation whose log
\* call raises a fault stays unlogged: that fault ends the request.
C6_AuditFollowsMutation ==
    \A r \in Reqs :
        /\ WellPaired(trace[r])
        /\ Len(trace[r]) % 2 = 1
           => \/ handler[r].pc \in {"logCreateApp", "logCreateEntrypoint",
                                    "logUpdateEntrypoint"}
              \/ Done(r) /\ handler[r].outcome = "Fault"
        /\ Len(trace[r]) % 2 = 0
           => handler[r].pc \notin {"logCreateApp", "logCreateEntrypoint",
                                    "logUpdateEntrypoint"}

C6_Witness ==
    \E r \in Reqs :
        /\ Done(r)
        /\ handler[r].outcome = "Fault"
        /\ trace[r] = <<"apps.create", "createApp", "entrypoints.create">>

\* C7: a request that succeeded made the update and logged it last: the
\* record the update returned is the resolved entrypoint with its bundleId
\* set to the id of the latest bundle of the request's name:tag combination.
C7_SuccessMeansUpdated ==
    \A r \in Reqs :
        (Done(r) /\ handler[r].outcome = "204")
        => /\ Len(trace[r]) >= 2
           /\ SubSeq(trace[r], Len(trace[r]) - 1, Len(trace[r]))
                = <<"entrypoints.update", "updateEntrypoint">>
           /\ handler[r].bundle # null
           /\ handler[r].bundle =
                findLatestByNameTagCombination(handler[r].body.bundleNameTagCombination)
           /\ handler[r].entrypoint # null
           /\ handler[r].newEntrypoint =
                [handler[r].entrypoint EXCEPT !.bundleId = handler[r].bundle.id]
           /\ \E i \in 1..Len(auditLog) :
                /\ auditLog[i].operation = "updateEntrypoint"
                /\ auditLog[i].newEntrypoint = handler[r].newEntrypoint

C7_Witness ==
    \E r \in Reqs :
        /\ Done(r)
        /\ handler[r].outcome = "204"
        /\ handler[r].existingEntrypoint # null
        /\ handler[r].existingEntrypoint.bundleId \notin {"null", handler[r].bundle.id}

\* The app record that owns the entrypoint e is the one the request r names.
OwnerIsNamed(r, e) ==
    \E i \in 1..Len(apps) :
        /\ apps[i].id = e.appId
        /\ \/ apps[i].name = handler[r].body.appName
           \/ apps[i].id = handler[r].body.appName

\* C8: every entrypoint's appId is the id of a stored app; and when a request
\* has created an entrypoint, every entrypoint that was on record before it
\* for the request's urlMatcher is owned by the app the request names, and
\* when it has updated an entrypoint, that entrypoint is owned by the app the
\* request names.
C8_OwnerOnRecord ==
    /\ \A i \in 1..Len(entrypoints) :
            \E j \in 1..Len(apps) : apps[j].id = entrypoints[i].appId
    /\ \A r \in Reqs :
        /\ handler[r].pc = "logCreateEntrypoint"
           => \A i \in 1..Len(entrypoints) :
                (/\ \E j \in (i + 1)..Len(entrypoints) :
                        entrypoints[j].id = handler[r].entrypoint.id
                 /\ \/ entrypoints[i].urlMatcher = handler[r].body.entrypointUrlMatcher
                    \/ entrypoints[i].id = handler[r].body.entrypointUrlMatcher)
                => OwnerIsNamed(r, entrypoints[i])
        /\ handler[r].pc = "logUpdateEntrypoint"
           => OwnerIsNamed(r, handler[r].newEntrypoint)

\* C9: no two stored apps have the same name and no two stored entrypoints
\* have the same urlMatcher.
C9_UniqueNames ==
    /\ \A i, j \in 1..Len(apps) : apps[i].name = apps[j].name => i = j
    /\ \A i, j \in 1..Len(entrypoints) :
            entrypoints[i].urlMatcher = entrypoints[j].urlMatcher => i = j

\* C10: the records a request created stay stored when a fault ends it; and
\* a request with the same body that runs alone right after a request that
\* ran alone, created the app (or the app and the entrypoint) and was ended by
\* a fault, if no fault ends it, succeeds: it creates no app, creates no
\* entrypoint when the first one had created it, and its update links the
\* stored entrypoint to the bundle.
C10_RetryConverges ==
    \A r \in Reqs :
        /\ (Done(r) /\ handler[r].outcome = "Fault")
           => /\ "apps.create" \in Range(trace[r])
                 => \E i \in 1..Len(apps) :
                        apps[i].name = handler[r].body.appName
              /\ "entrypoints.create" \in Range(trace[r])
                 => \E i \in 1..Len(entrypoints) :
                        entrypoints[i].urlMatcher = handler[r].body.entrypointUrlMatcher
        /\ (/\ Done(r)
            /\ run[r].alone
            /\ run[r].pred.outcome = "Fault"
            /\ "apps.create" \in Range(run[r].pred.trace)
            /\ handler[r].outcome # "Fault")
           => /\ handler[r].outcome = "204"
              /\ handler[r].existingApp # null
              /\ "apps.create" \notin Range(trace[r])
              /\ "entrypoints.create" \in Range(run[r].pred.trace)
                 => trace[r] = <<"entrypoints.update", "updateEntrypoint">>
              /\ handler[r].newEntrypoint.bundleId = handler[r].bundle.id
              /\ handler[r].newEntrypoint.appId = handler[r].existingApp.id
              /\ handler[r].newEntrypoint \in Range(entrypoints)

C10_Witness ==
    \E r \in Reqs :
        /\ Done(r)
        /\ run[r].alone
        /\ run[r].pred.outcome = "Fault"
        /\ "entrypoints.create" \in Range(run[r].pred.trace)
        /\ handler[r].outcome = "204"
        /\ Len(apps) = 1
        /\ Len(entrypoints) = 1

\* C11: a request whose bundle exists, whose entrypoint lookup returned
\* nothing and whose urlMatcher is malformed ends with the Validation error
\* and makes no storage mutation and no log call, whether its app lookup
\* returned an app (the entrypoint creation rejects the urlMatcher) or not
\* (the handler rejects it before creating the app).
C11_MalformedMatcherCreatesNothing ==
    \A r \in Reqs :
        (/\ Joined(r)
         /\ handler[r].bundle # null
         /\ handler[r].existingEntrypoint = null
         /\ ~validateEntrypointUrlMatcher(handler[r].body.entrypointUrlMatcher))
        => /\ trace[r] = <<>>
           /\ handler[r].pc \in {"lookup", "createEntrypoint", "done"}
           /\ handler[r].pc = "createEntrypoint" => handler[r].existingApp # null
           /\ Done(r) => handler[r].outcome = "Validation"

C11_Witness ==
    \E r \in Reqs :
        /\ Done(r)
        /\ handler[r].outcome = "Validation"
        /\ handler[r].bundle # null
        /\ handler[r].existingApp # null
        /\ handler[r].existingEntrypoint = null
        /\ trace[r] = <<>>

\* The linkage check of lines 75-78 on the results the request r holds.
Mismatched(r) ==
    /\ handler[r].existingEntrypoint # null
    /\ \/ handler[r].existingApp = null
       \/ handler[r].existingApp.id # handler[r].existingEntrypoint.appId

\* C12: the checks short-circuit in order.  A request without bundle ends
\* with NotFound, and one with a bundle and an entrypoint that does not link
\* to the app ends with 409, in both cases without the handler validating
\* the urlMatcher, also when the urlMatcher is malformed; and the handler has
\* validated the urlMatcher exactly when the bundle exists, the linkage is
\* consistent and the app lookup returned nothing.
C12_ShortCircuitOrder ==
    \A r \in Reqs :
        Joined(r) =>
            /\ handler[r].bundle = null
               => /\ ~run[r].validated
                  /\ Done(r) => handler[r].outcome = "NotFound"
            /\ (handler[r].bundle # null /\ Mismatched(r))
               => /\ ~run[r].validated
                  /\ Done(r) => handler[r].outcome = "409"
            /\ run[r].validated
               => /\ handler[r].bundle # null
                  /\ ~Mismatched(r)
                  /\ handler[r].existingApp = null
            /\ (/\ handler[r].pc # "lookup"
                /\ handler[r].bundle # null
                /\ ~Mismatched(r)
                /\ handler[r].existingApp = null)
               => run[r].validated

C12_Witness ==
    \E r \in Reqs :
        /\ Done(r)
        /\ handler[r].outcome = "409"
        /\ handler[r].existingApp = null
        /\ ~validateEntrypointUrlMatcher(handler[r].body.entrypointUrlMatcher)
        /\ ~run[r].validated

\* What a step may change in the storage: stored apps stay as they are,
\* stored entrypoints keep everything but their bundleId, and a bundleId
\* changes only in the entrypoint a request updates, to the id of that
\* request's bundle.
FrameStep ==
    /\ Len(apps') >= Len(apps)
    /\ \A i \in 1..Len(apps) : apps'[i] = apps[i]
    /\ Len(entrypoints') >= Len(entrypoints)
    /\ \A i \in 1..Len(entrypoints) :
        /\ entrypoints'[i].id = entrypoints[i].id
        /\ entrypoints'[i].appId = entrypoints[i].appId
        /\ entrypoints'[i].urlMatcher = entrypoints[i].urlMatcher
        /\ entrypoints'[i].configuration = entrypoints[i].configuration
        /\ DOMAIN entrypoints'[i] = DOMAIN entrypoints[i]
        /\ entrypoints'[i].bundleId # entrypoints[i].bundleId
           => \E r \in Reqs :
                /\ handler[r].pc = "updateEntrypoint"
                /\ handler'[r].pc = "logUpdateEntrypoint"
                /\ handler[r].entrypoint.id = entrypoints[i].id
                /\ entrypoints'[i].bundleId = handler[r].bundle.id

\* C13: no step of a request modifies or deletes a stored app, or changes
\* anything but the bundleId of a stored entrypoint, and the only bundleId
\* that changes is that of the entrypoint the request updates.  (The bundles
\* are a constant of the model: the handler calls nothing that writes them.)
C13_Frame == [][FrameStep]_vars

C13_Witness ==
    \E r \in Reqs :
        /\ handler[r].pc = "logUpdateEntrypoint"
        /\ handler[r].existingEntrypoint # null
        /\ handler[r].existingEntrypoint.bundleId # "null"
        /\ handler[r].newEntrypoint.bundleId # handler[r].existingEntrypoint.bundleId
        /\ handler[r].newEntrypoint \in Range(entrypoints)

\* C14: the lookups are joined before anything else happens: while one of
\* its lookups is pending a request has decided nothing, made no mutation
\* and no log call and produced no outcome.  And while a request that runs
\* alone is in its lookups, every result it holds is what the lookup returns
\* on the storage as it is, so the three results it decides on are the same
\* whatever the order in which the lookups completed.
C14_LookupsJoined ==
    \A r \in Reqs :
        /\ handler[r].pending # {}
           => /\ handler[r].pc = "lookup"
              /\ trace[r] = <<>>
              /\ handler[r].outcome = "none"
              /\ ~run[r].validated
        /\ (handler[r].pc = "lookup" /\ run[r].alone)
           => /\ "bundle" \notin handler[r].pending
                 => handler[r].bundle = findLatestByNameTagCombination(
                                            handler[r].body.bundleNameTagCombination)
              /\ "app" \notin handler[r].pending
                 => handler[r].existingApp = findOneByIdOrName(handler[r].body.appName)
              /\ "entrypoint" \notin handler[r].pending
                 => handler[r].existingEntrypoint =
                        findOneByIdOrUrlMatcher(handler[r].body.entrypointUrlMatcher)

C14_Witness ==
    \E r \in Reqs :
        /\ handler[r].pc = "lookup"
        /\ run[r].alone
        /\ handler[r].pending = {"bundle"}
        /\ handler[r].existingApp # null
        /\ handler[r].existingEntrypoint # null

\* The stored entrypoint with this id, in the storage es.
Stored(es, id) == es[CHOOSE i \in 1..Len(es) : es[i].id = id]

\* The update step of a request and the log step that follows it.
SnapshotStep ==
    \A r \in Reqs :
        /\ (handler[r].pc = "updateEntrypoint"
                /\ handler'[r].pc = "logUpdateEntrypoint")
           => /\ handler[r].entrypoint = Stored(entrypoints, handler[r].entrypoint.id)
              /\ handler'[r].newEntrypoint
                    = Stored(entrypoints', handler[r].entrypoint.id)
        /\ (handler[r].pc = "logUpdateEntrypoint" /\ handler'[r].pc = "done"
                /\ handler'[r].outcome = "204")
           => auditLog' = Append(auditLog,
                    [operation |-> "updateEntrypoint",
                     oldEntrypoint |-> handler[r].entrypoint,
                     newEntrypoint |-> handler[r].newEntrypoint])

\* C15: the updateEntrypoint event of a request carries, as oldEntrypoint,
\* the stored entrypoint as it was right before the request's update and, as
\* newEntrypoint, the stored entrypoint as it was right after, whatever other
\* requests do to the same entrypoint meanwhile.
C15_SnapshotsAroundUpdate == [][SnapshotStep]_vars

\* The last updateEntrypoint event of the audit log for the entrypoint id.
LastUpdateEvent(id) ==
    auditLog[Max({i \in 1..Len(auditLog) :
                    /\ auditLog[i].operation = "updateEntrypoint"
                    /\ auditLog[i].newEntrypoint.id = id})]

\* C16: when two requests for the same entrypoint and app, and no other
\* request, have run concurrently and both have succeeded, the last
\* updateEntrypoint event of the audit log for that entrypoint carries, as
\* newEntrypoint.bundleId, the bundleId the entrypoint has in storage: the
\* events are in the order of the updates.
C16_LastEventIsStored ==
    \A r, q \in Reqs :
        (/\ r # q
         /\ started = 2
         /\ Done(r) /\ handler[r].outcome = "204"
         /\ Done(q) /\ handler[q].outcome = "204"
         /\ handler[r].app.id = handler[q].app.id
         /\ handler[r].entrypoint.id = handler[q].entrypoint.id)
        => LastUpdateEvent(handler[r].entrypoint.id).newEntrypoint.bundleId
                = Stored(entrypoints, handler[r].entrypoint.id).bundleId

Outcomes == {"204", "409", "NotFound", "Validation", "Fault"}

\* A request has an outcome exactly when it has ended, and it is one of the
\* five outcomes.
OneOutcome ==
    \A r \in Reqs :
        /\ handler[r].outcome \in Outcomes \cup {"none"}
        /\ Done(r) <=> handler[r].outcome \in Outcomes
        /\ handler[r].pc = "idle" => trace[r] = <<>>

\* Once a request has its outcome nothing of it changes any more (until its
\* frame is discarded at the arrival of a new request): no second response,
\* no mutation, no log call; and a step that is not of the request r leaves
\* the handler of r where it is.
AfterOutcomeStep ==
    \A r \in Reqs :
        /\ (handler[r].outcome # "none" /\ started' = started)
           => /\ handler'[r] = handler[r]
              /\ trace'[r] = trace[r]
        /\ (InFlight(r) /\ handler'[r].outcome # "none")
           => /\ Done(r)'
              /\ \A q \in Reqs \ {r} : handler'[q] = handler[q]

\* C17: a request whose awaited calls all return ends, with exactly one of
\* the outcomes 204, 409, NotFound, Validation and propagated fault; once it
\* has its outcome it sends no second response, makes no mutation and
\* no log call.
C17_TerminatesOnce ==
    /\ []OneOutcome
    /\ [][AfterOutcomeStep]_vars
    /\ \A r \in Reqs : InFlight(r) ~> Done(r)

C17_Witness ==
    \E r, q \in Reqs :
        /\ Done(r) /\ handler[r].outcome = "409"
        /\ Done(q) /\ handler[q].outcome = "204"
        /\ trace[r] = <<>>

====
